---- MODULE Spec2Model ----
(***************************************************************************)
(* A model of the directory watcher (file_monitor.py, class FileMonitor)   *)
(* and of the paragraph classifier (protein_analyzer.py, class             *)
(* ProteinAnalyzer).                                                       *)
(*                                                                         *)
(* Python strings that the code inspects character by character (URLs,     *)
(* oracle answers) are sequences of one-character strings.  File and page  *)
(* text is a sequence of lines.  Timestamps of entries are left out: no    *)
(* branch of the code reads them.                                          *)
(***************************************************************************)
EXTENDS Integers, Sequences, FiniteSets, TLC

VARIABLES
    \* ---- normalize_url / fetch_url_content applied to one input URL
    url,            \* the input string
    normalized,     \* <<normalize_url(url), normalize_url(normalize_url(url))>>
    fetched,        \* what fetch_url_content(normalize_url(url)) did, or NotRun
    \* ---- the classification loop applied to one list of paragraphs
    paragraphs,     \* the paragraphs to classify
    responses,      \* responses[i]: what the endpoint did for paragraphs[i]
    classified,     \* the two lists the loop built, or NotRun
    \* ---- ProteinAnalyzer
    analyzer,       \* the object's fields: relevant_sources, non_relevant_sources,
                    \* processed_urls; the files memlog/relevant_sources.json and
                    \* memlog/non_relevant_sources.json; alive (FALSE once a call raised)
    handed,         \* history: how often process_urls handed each URL to
                    \* fetch_url_content in this run, and how often text came back
    last_call,      \* history: what the last analyze_content call did
    \* ---- FileMonitor
    directory,      \* the watched directory: the name of each file -> the file
    state_file,     \* memlog/file_states.json
    file_states,    \* the object's field file_states
    pc,             \* "stopped" (no process, or interrupted), "monitoring"
                    \* (in monitor's loop, between polls), "crashed"
    polled          \* history: the events of the poll that was the last step,
                    \* whether it raised; fresh: the object was made and has
                    \* not polled yet

urlVars == <<url, normalized, fetched>>
oracleVars == <<paragraphs, responses, classified>>
analyzerVars == <<analyzer, handed, last_call>>
monitorVars == <<directory, state_file, file_states, pc, polled>>

vars == <<url, normalized, fetched, paragraphs, responses, classified,
          analyzer, handed, last_call,
          directory, state_file, file_states, pc, polled>>

NotRun == [run |-> FALSE]

\* the variables of a part that a specification does not use
UrlIdle == url = <<>> /\ normalized = <<>> /\ fetched = NotRun
OracleIdle == paragraphs = <<>> /\ responses = <<>> /\ classified = NotRun
AnalyzerIdle == analyzer = NotRun /\ handed = <<>> /\ last_call = NotRun
\* memlog/file_states.json: absent, or the dict that save_state dumped
NoStateFile == [exists |-> FALSE, states |-> <<>>]
StateFile(states) == [exists |-> TRUE, states |-> states]

\* the value of polled after a step that is not a poll
NoPoll(fresh) == [run |-> FALSE, fresh |-> fresh, events |-> <<>>, raised |-> FALSE]

MonitorIdle ==
    /\ directory = <<>>
    /\ state_file = NoStateFile
    /\ file_states = <<>>
    /\ pc = "stopped"
    /\ polled = NoPoll(FALSE)

(***************************************************************************)
(* String helpers (Python str methods and the re patterns of the source).  *)
(***************************************************************************)
Digits == {"0", "1", "2", "3", "4", "5", "6", "7", "8", "9"}

\* s.startswith(p)
StartsWith(s, p) == Len(s) >= Len(p) /\ SubSeq(s, 1, Len(p)) = p

\* index of the first occurrence of p in s, 0 when there is none
Find(s, p) ==
    LET hits == {i \in 1..(Len(s) - Len(p) + 1) : SubSeq(s, i, i + Len(p) - 1) = p}
    IN IF hits = {} THEN 0 ELSE CHOOSE i \in hits : \A j \in hits : i <= j

\* p in s
Contains(s, p) == Find(s, p) # 0

\* s.rstrip(c)
RStrip(s, c) ==
    LET keep == {i \in 0..Len(s) : \A j \in (i + 1)..Len(s) : s[j] = c}
    IN SubSeq(s, 1, CHOOSE i \in keep : \A j \in keep : i <= j)

\* the longest run of digits of s that starts at index i
DigitRun(s, i) ==
    LET ends == {e \in (i - 1)..Len(s) : \A j \in i..e : s[j] \in Digits}
    IN SubSeq(s, i, CHOOSE e \in ends : \A f \in ends : f <= e)

HTTP == <<"h","t","t","p",":","/","/">>
HTTPS == <<"h","t","t","p","s",":","/","/">>
PUBMED_HOST == <<"p","u","b","m","e","d",".","n","c","b","i",".","n","l","m",".","n","i","h",".","g","o","v">>
NCBI_HOST == <<"n","c","b","i",".","n","l","m",".","n","i","h",".","g","o","v">>
DOI_HOST == <<"d","o","i",".","o","r","g">>
PMC == <<"P","M","C">>
PUBMED_PREFIX == <<"h","t","t","p","s",":","/","/","p","u","b","m","e","d",".","n","c","b","i",".","n","l","m",".","n","i","h",".","g","o","v","/">>
PMC_PREFIX == <<"h","t","t","p","s",":","/","/","w","w","w",".","n","c","b","i",".","n","l","m",".","n","i","h",".","g","o","v","/","p","m","c","/","a","r","t","i","c","l","e","s","/","P","M","C">>
PMC_ARTICLES == <<"p","m","c","/","a","r","t","i","c","l","e","s","/","P","M","C">>

(***************************************************************************)
(* urllib.parse.urlparse / urlunparse on a URL that starts with http:// or *)
(* https:// and holds no ';' and no '#': netloc runs to the first '/' or   *)
(* '?', the query starts after the first '?'.                              *)
(***************************************************************************)
\* index of the first element of s that is in chars, Len(s) + 1 for none
FirstOf(s, chars) ==
    LET stops == {i \in 1..Len(s) : s[i] \in chars}
    IN IF stops = {} THEN Len(s) + 1 ELSE CHOOSE i \in stops : \A j \in stops : i <= j

\* the parts of scheme://netloc tail, the query starting after index q of tail
ParseResult(scheme, netloc, tail, q) ==
    [scheme |-> scheme,
     netloc |-> netloc,
     path   |-> SubSeq(tail, 1, q - 1),
     query  |-> SubSeq(tail, q + 1, Len(tail))]

\* rest is what follows scheme://, netloc ends before index nEnd of rest
SplitNetloc(scheme, rest, nEnd) ==
    ParseResult(scheme, SubSeq(rest, 1, nEnd - 1), SubSeq(rest, nEnd, Len(rest)),
                FirstOf(SubSeq(rest, nEnd, Len(rest)), {"?"}))

SplitScheme(u, colon) ==
    SplitNetloc(SubSeq(u, 1, colon - 1), SubSeq(u, colon + 3, Len(u)),
                FirstOf(SubSeq(u, colon + 3, Len(u)), {"/", "?"}))

urlparse(u) == SplitScheme(u, Find(u, <<":">>))

urlunparse(parsed) ==
    parsed.scheme \o <<":", "/", "/">> \o parsed.netloc \o parsed.path
        \o (IF parsed.query = <<>> THEN <<>> ELSE <<"?">> \o parsed.query)

\* re.search(r'/?(\d+)/?$', path).group(1) for a path without trailing '/':
\* the digits the path ends in; <<>> stands for None (no match).
pubmed_match(path) ==
    LET starts == {i \in 1..(Len(path) + 1) : \A j \in i..Len(path) : path[j] \in Digits}
    IN SubSeq(path, CHOOSE i \in starts : \A j \in starts : i <= j, Len(path))

\* re.search(r'PMC(\d+)', u).group(1): the digits after the first "PMC" that
\* a digit follows; <<>> stands for None.
pmc_match(u) ==
    LET hits == {i \in 1..(Len(u) - 3) : SubSeq(u, i, i + 2) = PMC /\ u[i + 3] \in Digits}
    IN IF hits = {} THEN <<>>
       ELSE DigitRun(u, 3 + CHOOSE i \in hits : \A j \in hits : i <= j)

Returned(s) == [raised |-> FALSE, value |-> s]
Raised == [raised |-> TRUE, value |-> <<>>]

\* lines 64-76 of normalize_url: url with its scheme, parsed, and the two
\* matches.  pubmed_match.group(1) on None raises AttributeError.
NormalizeMatched(u1, parsed, pm, pmc) ==
    IF Contains(parsed.netloc, PUBMED_HOST)
       \/ (pm # <<>> /\ Contains(parsed.netloc, NCBI_HOST))
    THEN IF pm = <<>> THEN Raised
         ELSE Returned(PUBMED_PREFIX \o pm \o <<"/">>)
    ELSE IF pmc # <<>> THEN Returned(PMC_PREFIX \o pmc \o <<"/">>)
    ELSE IF Contains(parsed.netloc, DOI_HOST) THEN Returned(urlunparse(parsed))
    ELSE Returned(u1)

\* lines 59-68 of normalize_url
NormalizeParsed(u1, parsed) ==
    NormalizeMatched(u1, parsed, pubmed_match(RStrip(parsed.path, "/")), pmc_match(u1))

\* lines 59-76 of normalize_url, the URL with its scheme
NormalizeWithScheme(u1) == NormalizeParsed(u1, urlparse(u1))

\* ProteinAnalyzer.normalize_url
normalize_url(u) ==
    NormalizeWithScheme(IF StartsWith(u, HTTP) \/ StartsWith(u, HTTPS) THEN u ELSE HTTPS \o u)

\* The URLs that the source lines of the modelled files hold.
CitedUrl == <<"h","t","t","p","s",":","/","/","e","u","r","o","p","e","p","m","c",".","o","r","g","/","P","M","C","4","2">>
SearchUrl == <<"h","t","t","p","s",":","/","/","p","u","b","m","e","d",".","n","c","b","i",".","n","l","m",".","n","i","h",".","g","o","v","/","?","t","e","r","m","=","x">>

\* These URLs, the canonical PMC form that normalize_url gives CitedUrl
\* and the PubMed URL that fetch_url_content falls back to.
CitedUrls ==
    {CitedUrl, SearchUrl, PMC_PREFIX \o <<"4","2","/">>, PUBMED_PREFIX \o <<"4","2","/">>}

\* normalize_url and re.search(r'PMC(\d+)', u) on these URLs, computed once
NormalizedCited == [u \in CitedUrls |-> normalize_url(u)]
PmcMatchCited == [u \in CitedUrls |-> pmc_match(u)]

\* self.normalize_url(u) and the PMC match, looked up where computed
Normalized(u) == IF u \in DOMAIN NormalizedCited THEN NormalizedCited[u] ELSE normalize_url(u)
PmcMatched(u) == IF u \in DOMAIN PmcMatchCited THEN PmcMatchCited[u] ELSE pmc_match(u)

(***************************************************************************)
(* Text is a sequence of lines.  A page that fetch_url_content returns is  *)
(* one line: the code joins all chunks of the page with single spaces.     *)
(***************************************************************************)
TextLine(id)   == [kind |-> "text", id |-> id, url |-> <<>>]
BlankLine      == [kind |-> "blank", id |-> "", url |-> <<>>]
SourceLine(u)  == [kind |-> "source", id |-> "", url |-> u]
SeparatorLine  == [kind |-> "sep", id |-> "", url |-> <<>>]

None == [isNone |-> TRUE, text |-> <<>>]
Text(lines) == [isNone |-> FALSE, text |-> lines]

\* What one requests.get does: "fail" (an exception, raise_for_status
\* included), "empty" (a page without text), "page" (a page with text).
GetOutcomes == {"fail", "empty", "page"}

MaxGets == 3        \* requests.get outcomes offered to one fetch_url_content

PageText(outcome, target) ==
    IF outcome = "empty" THEN Text(<<>>) ELSE Text(<<TextLine(target)>>)

\* what fetch_url_content returns, with the requests it made (history)
Fetched(gets, outcomes, result) ==
    [gets |-> gets, outcomes |-> outcomes, result |-> result, raised |-> FALSE]

\* the requests gs with outcomes os, followed by those of the call r
After(gs, os, r) ==
    [gets |-> gs \o r.gets, outcomes |-> os \o r.outcomes,
     result |-> r.result, raised |-> r.raised]

\* lines 98-135 with the URL normalized to n: one requests.get
FirstGet(n, net) ==
    IF n.raised THEN Fetched(<<>>, <<>>, None)
    ELSE Fetched(<<n.value>>, <<net[1]>>,
                 IF net[1] = "fail" THEN None ELSE PageText(net[1], n.value))

\* ProteinAnalyzer.fetch_url_content without its except branch's retry.
fetch_without_fallback(u, net) == FirstGet(Normalized(u), net)

RECURSIVE fetch_url_content(_, _)

\* lines 136-149: the except branch, after the requests gs with outcomes
\* os; pmc is the PMC match of the URL, rest the outcomes still to come
Fallback(u, pmc, gs, os, rest) ==
    IF Contains(u, PMC_ARTICLES) /\ pmc # <<>>
    THEN After(gs, os, fetch_url_content(PUBMED_PREFIX \o pmc \o <<"/">>, rest))
    ELSE Fetched(gs, os, None)

\* lines 98-149 with the URL normalized to n
FetchNormalized(u, n, net) ==
    IF n.raised THEN Fallback(u, PmcMatched(u), <<>>, <<>>, net)
    ELSE IF net[1] # "fail" THEN FirstGet(n, net)
    ELSE Fallback(u, PmcMatched(u), <<n.value>>, <<net[1]>>, Tail(net))

\* ProteinAnalyzer.fetch_url_content(u); net[i] is the outcome of the i-th
\* requests.get.  gets lists the URLs requested, in order.
fetch_url_content(u, net) == FetchNormalized(u, Normalized(u), net)

(***************************************************************************)
(* The oracle call.  A response of the endpoint is                         *)
(*   [outcome |-> "exception"]      requests.post raised                   *)
(*   [outcome |-> "answered", status, body]                                *)
(* where body.json is "invalid" (response.json() raises), "list" (JSON     *)
(* that is no object: result.get raises) or "object"; an object may hold   *)
(* the key 'response', whose value is a string (chars) or null.            *)
(***************************************************************************)
YES == <<"y","e","s">>
Whitespace == {" ", "\n", "\t"}

\* str.strip()
Strip(s) ==
    LET black == {i \in 1..Len(s) : s[i] \notin Whitespace}
    IN IF black = {} THEN <<>>
       ELSE SubSeq(s, CHOOSE i \in black : \A j \in black : i <= j,
                      CHOOSE i \in black : \A j \in black : j <= i)

LowerChar(c) ==
    CASE c = "Y" -> "y" [] c = "E" -> "e" [] c = "S" -> "s"
      [] c = "N" -> "n" [] c = "O" -> "o" [] OTHER -> c

\* str.lower()
Lower(s) == [i \in 1..Len(s) |-> LowerChar(s[i])]

Exception == [outcome |-> "exception", status |-> 0,
              body |-> [json |-> "invalid", has_response |-> FALSE, is_str |-> FALSE, response |-> <<>>]]
Answered(status, body) == [outcome |-> "answered", status |-> status, body |-> body]
InvalidJson == [json |-> "invalid", has_response |-> FALSE, is_str |-> FALSE, response |-> <<>>]
JsonList == [json |-> "list", has_response |-> FALSE, is_str |-> FALSE, response |-> <<>>]
JsonWithout == [json |-> "object", has_response |-> FALSE, is_str |-> FALSE, response |-> <<>>]
JsonNull == [json |-> "object", has_response |-> TRUE, is_str |-> FALSE, response |-> <<>>]
JsonAnswer(text) == [json |-> "object", has_response |-> TRUE, is_str |-> TRUE, response |-> text]

\* ProteinAnalyzer.query_ollama with the status test left out.
query_ollama_any_status(r) ==
    IF r.outcome = "exception" THEN [raised |-> FALSE, value |-> FALSE]
    ELSE IF r.body.json # "object" THEN [raised |-> FALSE, value |-> FALSE]
    ELSE IF r.body.has_response /\ ~r.body.is_str THEN [raised |-> FALSE, value |-> FALSE]
    ELSE [raised |-> FALSE,
          value |-> StartsWith(Lower(Strip(r.body.response)), YES)]

\* ProteinAnalyzer.query_ollama, given what the endpoint did.  Every
\* exception of the try block ends in the except branch: return False.
query_ollama(r) ==
    IF r.outcome = "exception" THEN [raised |-> FALSE, value |-> FALSE]
    ELSE IF r.status = 200
         THEN IF r.body.json # "object" THEN [raised |-> FALSE, value |-> FALSE]
              ELSE IF r.body.has_response /\ ~r.body.is_str
                   THEN [raised |-> FALSE, value |-> FALSE]
              ELSE [raised |-> FALSE,
                    value |-> StartsWith(Lower(Strip(
                        IF r.body.has_response THEN r.body.response ELSE <<>>)), YES)]
         ELSE [raised |-> FALSE, value |-> FALSE]

\* The loop of analyze_content (lines 251-258) and of process_urls (lines
\* 198-205): rs[i] is the endpoint's response for ps[i].  A raise of
\* query_ollama would end the loop.
RECURSIVE classify(_, _)
classify(ps, rs) ==
    IF ps = <<>> THEN [relevant |-> <<>>, non_relevant |-> <<>>, raised |-> FALSE]
    ELSE LET q == query_ollama(Head(rs))
             rest == classify(Tail(ps), Tail(rs))
         IN IF q.raised THEN [relevant |-> <<>>, non_relevant |-> <<>>, raised |-> TRUE]
            ELSE IF q.value
                 THEN [rest EXCEPT !.relevant = <<Head(ps)>> \o @]
                 ELSE [rest EXCEPT !.non_relevant = <<Head(ps)>> \o @]

(***************************************************************************)
(* SpecOracle: the classification loop applied to one list of paragraphs.  *)
(***************************************************************************)
MaxParagraphs == 2      \* paragraphs in one classified text

Answers == {<<"Y","e","s",".">>,
            <<" ","y","e","s">>,
            <<"\n","Y","E","S","\n">>,
            <<"y","e","s","t","e","r">>,
            <<"N","o",".">>,
            <<"n","o"," ","y","e","s">>,
            <<"y","e">>,
            <<>>}
Responses ==
    {Exception}
    \cup {Answered(st, InvalidJson) : st \in {200, 500}}
    \cup {Answered(200, b) : b \in {JsonList, JsonWithout, JsonNull}}
    \cup {Answered(st, JsonAnswer(a)) : st \in {200, 404, 500}, a \in Answers}

OracleParagraphs == {<<TextLine("p")>>, <<TextLine("q")>>}

InitOracle ==
    /\ UrlIdle
    /\ AnalyzerIdle
    /\ MonitorIdle
    /\ \E n \in 1..MaxParagraphs : paragraphs \in [1..n -> OracleParagraphs]
    /\ responses = <<>>
    /\ classified = NotRun

Classify ==
    /\ classified = NotRun
    /\ \E rs \in [1..Len(paragraphs) -> Responses] :
        /\ responses' = rs
        /\ classified' = [run |-> TRUE] @@ classify(paragraphs, rs)
    /\ UNCHANGED <<paragraphs, urlVars, analyzerVars, monitorVars>>

NextOracle == Classify

SpecOracle == InitOracle /\ [][NextOracle]_vars

\* the text, leading white space skipped, begins with y, e, s in either case
BeginsWithYes(text) ==
    \E k \in 0..Len(text) :
        /\ \A j \in 1..k : text[j] \in Whitespace
        /\ Len(text) >= k + 3
        /\ text[k + 1] \in {"y", "Y"}
        /\ text[k + 2] \in {"e", "E"}
        /\ text[k + 3] \in {"s", "S"}

SaysYes(r) ==
    /\ r.outcome = "answered"
    /\ r.status = 200
    /\ r.body.json = "object"
    /\ r.body.has_response
    /\ r.body.is_str
    /\ BeginsWithYes(r.body.response)

\* the elements of ps at the indices that satisfy keep, in order
RECURSIVE Pick(_, _, _)
Pick(ps, keep, i) ==
    IF i > Len(ps) THEN <<>>
    ELSE (IF i \in keep THEN <<ps[i]>> ELSE <<>>) \o Pick(ps, keep, i + 1)

\* C8: the oracle call is fail-closed and never raises: a paragraph is put
\* in the relevant list only when the endpoint answered 200 with a response
\* text that begins, trimmed and lowercased, with "yes"; every other
\* paragraph (transport error, other status, malformed body) is put in the
\* non-relevant list, and the loop classifies all paragraphs.
C8_FailClosed ==
    classified.run =>
        LET yes == {i \in 1..Len(paragraphs) : SaysYes(responses[i])}
        IN /\ ~classified.raised
           /\ classified.relevant = Pick(paragraphs, yes, 1)
           /\ classified.non_relevant = Pick(paragraphs, (1..Len(paragraphs)) \ yes, 1)

C8_Witness ==
    /\ classified.run
    /\ Len(paragraphs) = 2
    /\ responses[1] = Answered(500, JsonAnswer(<<"Y","e","s",".">>))
    /\ responses[2] = Answered(200, JsonAnswer(<<"\n","Y","E","S","\n">>))
    /\ classified.non_relevant = <<paragraphs[1]>>
    /\ classified.relevant = <<paragraphs[2]>>

(***************************************************************************)
(* ProteinAnalyzer: the collections, their files and the analysis.         *)
(***************************************************************************)
Range(seq) == {seq[i] : i \in 1..Len(seq)}

\* all orders in which a list made from the set S can enumerate it
Orders(S) == {o \in [1..Cardinality(S) -> S] : Range(o) = S}

NoUrl == <<>>       \* an entry without the key 'source_url'
Entry(filename, u, ps) == [filename |-> filename, source_url |-> u, paragraphs |-> ps]

NoFile == [exists |-> FALSE, entries |-> <<>>]
JsonFile(entries) == [exists |-> TRUE, entries |-> entries]

\* ProteinAnalyzer.split_into_paragraphs: the runs of lines between lines
\* that are empty or white space.
RECURSIVE split_into_paragraphs(_)
split_into_paragraphs(text) ==
    IF text = <<>> THEN <<>>
    ELSE IF Head(text).kind = "blank" THEN split_into_paragraphs(Tail(text))
    ELSE LET blanks == {i \in 1..Len(text) : text[i].kind = "blank"}
             end    == IF blanks = {} THEN Len(text) + 1
                       ELSE CHOOSE i \in blanks : \A j \in blanks : i <= j
         IN <<SubSeq(text, 1, end - 1)>>
                \o split_into_paragraphs(SubSeq(text, end, Len(text)))

\* text.split('=' * 80)
RECURSIVE Sections(_)
Sections(text) ==
    LET seps == {i \in 1..Len(text) : text[i].kind = "sep"}
    IN IF seps = {} THEN <<text>>
       ELSE LET i == CHOOSE i \in seps : \A j \in seps : i <= j
            IN <<SubSeq(text, 1, i - 1)>> \o Sections(SubSeq(text, i + 1, Len(text)))

\* re.search(r'Source:\s*(https?://[^\s\n]+)', section).group(1); <<>> for
\* no match
SourceMatch(section) ==
    LET hits == {i \in 1..Len(section) :
                    /\ section[i].kind = "source"
                    /\ \/ StartsWith(section[i].url, HTTP) /\ Len(section[i].url) > Len(HTTP)
                       \/ StartsWith(section[i].url, HTTPS) /\ Len(section[i].url) > Len(HTTPS)}
    IN IF hits = {} THEN <<>>
       ELSE section[CHOOSE i \in hits : \A j \in hits : i <= j].url

\* lines 86-90: the URLs of the Source: lines, one for each section
SourceUrls(secs) == {SourceMatch(secs[i]) : i \in 1..Len(secs)} \ {<<>>}

\* lines 91-94: ns holds what normalize_url did for each URL found; a
\* raise leaves extract_urls
NormalizedUrls(ns) ==
    IF \E n \in ns : n.raised
    THEN [raised |-> TRUE, urls |-> {}]
    ELSE [raised |-> FALSE, urls |-> {n.value : n \in ns}]

\* ProteinAnalyzer.extract_urls; normalize_url may raise
extract_urls(text) == NormalizedUrls({Normalized(u) : u \in SourceUrls(Sections(text))})

\* ProteinAnalyzer.save_sources
save_sources(self) ==
    [self EXCEPT !.sources_file = JsonFile(self.relevant_sources),
                 !.non_relevant_file = JsonFile(self.non_relevant_sources)]

\* ProteinAnalyzer.__init__ with load_existing_sources, given the two files
ProteinAnalyzer(sources_file, non_relevant_file) ==
    [relevant_sources |-> IF sources_file.exists THEN sources_file.entries ELSE <<>>,
     non_relevant_sources |->
        IF non_relevant_file.exists THEN non_relevant_file.entries ELSE <<>>,
     processed_urls |->
        IF sources_file.exists
        THEN {e.source_url : e \in {x \in Range(sources_file.entries) : x.source_url # NoUrl}}
        ELSE {},
     sources_file |-> sources_file,
     non_relevant_file |-> non_relevant_file,
     alive |-> TRUE]

\* lines 207-238: the paragraphs of the page of u classified as c
StoreFetched(self, u, source_filename, c) ==
    LET rel  == IF c.relevant # <<>>
                   /\ ~\E e \in Range(self.relevant_sources) : e.source_url = u
                THEN Append(self.relevant_sources, Entry(source_filename, u, c.relevant))
                ELSE self.relevant_sources
        non  == IF c.non_relevant # <<>>
                   /\ ~\E e \in Range(self.non_relevant_sources) : e.source_url = u
                THEN Append(self.non_relevant_sources, Entry(source_filename, u, c.non_relevant))
                ELSE self.non_relevant_sources
        s1   == [self EXCEPT !.relevant_sources = rel, !.non_relevant_sources = non,
                             !.processed_urls = @ \cup {u}]
    IN IF c.relevant # <<>> \/ c.non_relevant # <<>> THEN save_sources(s1) ELSE s1

\* the body of process_urls for one URL that is not in processed_urls and
\* whose fetch returned text (lines 190-238)
ProcessFetched(self, u, source_filename, text, rs) ==
    StoreFetched(self, u, source_filename, classify(split_into_paragraphs(text), rs))

\* what process_urls has done: the object, and the URLs handed to
\* fetch_url_content with whether text came back (history)
Handed(u, got, rest) ==
    [self |-> rest.self, fetches |-> <<[url |-> u, text |-> got]>> \o rest.fetches]

\* if content: (line 190)
Truthy(result) == ~result.isNone /\ result.text # <<>>

RECURSIVE process_urls(_, _, _, _, _)

\* lines 188-238 for the first URL of urls, f being what its fetch
\* returned, and the loop over the others
ProcessUrl(self, urls, source_filename, net, page_rs, f) ==
    Handed(Head(urls), Truthy(f.result),
           process_urls(IF Truthy(f.result)
                        THEN ProcessFetched(self, Head(urls), source_filename,
                                            f.result.text, <<page_rs[Head(urls)]>>)
                        ELSE self,
                        Tail(urls), source_filename, net, page_rs))

\* ProteinAnalyzer.process_urls without the processed_urls test
process_urls_unchecked(self, urls, source_filename, net, page_rs) ==
    IF urls = <<>> THEN [self |-> self, fetches |-> <<>>]
    ELSE ProcessUrl(self, urls, source_filename, net, page_rs,
                    fetch_url_content(Head(urls), net[Head(urls)]))

\* ProteinAnalyzer.process_urls; urls in the order the list enumerates them,
\* net[u] the outcomes of the requests made for u, page_rs[u] the endpoint's
\* response for the page's paragraph.
process_urls(self, urls, source_filename, net, page_rs) ==
    IF urls = <<>> THEN [self |-> self, fetches |-> <<>>]
    ELSE IF Head(urls) \in self.processed_urls
    THEN process_urls(self, Tail(urls), source_filename, net, page_rs)
    ELSE ProcessUrl(self, urls, source_filename, net, page_rs,
                    fetch_url_content(Head(urls), net[Head(urls)]))

\* lines 270-274: an entry of the file with these paragraphs is stored
Stored(sources, filename, ps) ==
    \E e \in Range(sources) : e.filename = filename /\ Range(e.paragraphs) = Range(ps)

\* lines 260-295 without the tests for a stored entry
StoreFileAlways(self, filename, c) ==
    LET rel == IF c.relevant # <<>>
               THEN Append(self.relevant_sources, Entry(filename, NoUrl, c.relevant))
               ELSE self.relevant_sources
        non == IF c.non_relevant # <<>>
               THEN Append(self.non_relevant_sources, Entry(filename, NoUrl, c.non_relevant))
               ELSE self.non_relevant_sources
        s1  == [self EXCEPT !.relevant_sources = rel, !.non_relevant_sources = non]
    IN IF c.relevant # <<>> \/ c.non_relevant # <<>> THEN save_sources(s1) ELSE s1

\* lines 260-295: the paragraphs of the file classified as c
StoreFile(self, filename, c) ==
    LET rel == IF c.relevant # <<>> /\ ~Stored(self.relevant_sources, filename, c.relevant)
               THEN Append(self.relevant_sources, Entry(filename, NoUrl, c.relevant))
               ELSE self.relevant_sources
        non == IF c.non_relevant # <<>>
                  /\ ~Stored(self.non_relevant_sources, filename, c.non_relevant)
               THEN Append(self.non_relevant_sources, Entry(filename, NoUrl, c.non_relevant))
               ELSE self.non_relevant_sources
        s1  == [self EXCEPT !.relevant_sources = rel, !.non_relevant_sources = non]
    IN IF c.relevant # <<>> \/ c.non_relevant # <<>> THEN save_sources(s1) ELSE s1

\* history: a test for a stored entry kept an entry out
FoundStored(self, filename, c) ==
    \/ c.relevant # <<>> /\ Stored(self.relevant_sources, filename, c.relevant)
    \/ c.non_relevant # <<>> /\ Stored(self.non_relevant_sources, filename, c.non_relevant)

\* what analyze_content returns after process_urls did pr
Analyzed(pr, value, found_stored) ==
    [self |-> pr.self, raised |-> FALSE, value |-> value,
     fetches |-> pr.fetches, found_stored |-> found_stored]

\* lines 297-303: s2 is the object after the first save, ex what
\* extract_urls did.  A raise of extract_urls leaves the object as it was
\* after the first save.
AnalyzeUrls(s2, filename, c, ex, found_stored, order, net, page_rs) ==
    IF ex.raised
    THEN [self |-> [s2 EXCEPT !.alive = FALSE], raised |-> TRUE, value |-> FALSE,
          fetches |-> <<>>, found_stored |-> found_stored]
    ELSE Analyzed(process_urls(s2, order, filename, net, page_rs),
                  c.relevant # <<>> \/ ex.urls # {}, found_stored)

\* lines 260-303, the paragraphs of content classified as c
AnalyzeClassified(self, filename, content, c, order, net, page_rs) ==
    AnalyzeUrls(StoreFile(self, filename, c), filename, c, extract_urls(content),
                FoundStored(self, filename, c), order, net, page_rs)

\* ProteinAnalyzer.analyze_content(filename, content): rs[i] the endpoint's
\* response for the i-th paragraph of content, order the list that
\* extract_urls returns.
analyze_content(self, filename, content, rs, order, net, page_rs) ==
    AnalyzeClassified(self, filename, content,
                      classify(split_into_paragraphs(content), rs), order, net, page_rs)

(***************************************************************************)
(* SpecAnalyzer: one ProteinAnalyzer object, analyze_content called with   *)
(* any file name and content, and the process restarted at any time.       *)
(***************************************************************************)
MaxHanded == 2      \* the history counters of handed stop counting here


\* the file names and contents that analyze_content is called with: a file
\* that cites a source, one that cites it in two paragraphs, one whose
\* source is a PubMed search (normalize_url raises on it)
AnalyzerFileNames == {"a.txt"}
AnalyzerContents ==
    {<<SourceLine(CitedUrl)>>,
     <<SourceLine(CitedUrl), BlankLine, SourceLine(CitedUrl)>>,
     <<SourceLine(SearchUrl)>>}

\* outcomes of the successive requests.get of one fetch_url_content
NetScripts ==
    {s \in [1..MaxGets -> GetOutcomes] :
        \/ \A i \in 1..MaxGets : s[i] = "fail"
        \/ \A i \in 1..MaxGets : s[i] = "page"
        \/ \A i \in 1..MaxGets : s[i] = "empty"
        \/ s[1] = "fail" /\ \A i \in 2..MaxGets : s[i] = "page"}

AnalyzerResponses == {Exception, Answered(200, JsonAnswer(<<"Y","e","s",".">>))}

AnalyzerUrls == UNION {extract_urls(c).urls : c \in AnalyzerContents}

NotHanded == [u \in AnalyzerUrls |-> [n |-> 0, text |-> 0]]

Count(n) == IF n < MaxHanded THEN n + 1 ELSE n

RECURSIVE Tally(_, _)
Tally(h, fetches) ==
    IF fetches = <<>> THEN h
    ELSE LET f == Head(fetches)
         IN Tally([h EXCEPT ![f.url] = [n |-> Count(@.n),
                                        text |-> IF f.text THEN Count(@.text) ELSE @.text]],
                  Tail(fetches))

InitAnalyzer ==
    /\ UrlIdle
    /\ OracleIdle
    /\ MonitorIdle
    /\ analyzer = ProteinAnalyzer(NoFile, NoFile)
    /\ handed = NotHanded
    /\ last_call = NotRun

\* the state after the call of analyze_content that did r, which met the
\* URLs of order
Called(r, order) ==
    /\ analyzer' = r.self
    /\ handed' = Tally(handed, r.fetches)
    /\ last_call' = [run |-> TRUE, raised |-> r.raised,
                     found_stored |-> r.found_stored,
                     skipped |-> Range(order) \cap analyzer.processed_urls,
                     refetched |-> {f.url : f \in Range(r.fetches)}
                                       \cap analyzer.processed_urls]

\* analyze_content called on a content of n paragraphs that cites urls
AnalyzeWith(filename, content, n, urls) ==
    \E rs \in [1..n -> AnalyzerResponses],
       order \in Orders(urls),
       net \in [urls -> NetScripts],
       page_rs \in [urls -> AnalyzerResponses] :
      Called(analyze_content(analyzer, filename, content, rs, order, net, page_rs), order)

\* FileMonitor.handle_file_change calls analyzer.analyze_content
AnalyzeContent ==
    /\ analyzer.alive
    /\ \E filename \in AnalyzerFileNames, content \in AnalyzerContents :
         AnalyzeWith(filename, content, Len(split_into_paragraphs(content)),
                     extract_urls(content).urls)
    /\ UNCHANGED <<urlVars, oracleVars, monitorVars>>

\* the process ends (a raise, an interrupt) and a new one constructs the
\* object from the two files
Restart ==
    /\ analyzer' = ProteinAnalyzer(analyzer.sources_file, analyzer.non_relevant_file)
    /\ handed' = NotHanded
    /\ last_call' = NotRun
    /\ UNCHANGED <<urlVars, oracleVars, monitorVars>>

NextAnalyzer == AnalyzeContent \/ Restart

SpecAnalyzer == InitAnalyzer /\ [][NextAnalyzer]_vars

NoTwoAlike(entries) ==
    \A i, j \in 1..Len(entries) :
        i < j => ~ /\ entries[i].filename = entries[j].filename
                   /\ entries[i].source_url = entries[j].source_url
                   /\ Range(entries[i].paragraphs) = Range(entries[j].paragraphs)

\* C5: neither collection ever holds two entries with the same file name,
\* the same source URL and the same set of paragraphs.
C5_NoDuplicateEntries ==
    /\ NoTwoAlike(analyzer.relevant_sources)
    /\ NoTwoAlike(analyzer.non_relevant_sources)

\* a call met an entry it would have repeated, and kept it out
C5_Witness ==
    /\ last_call.run
    /\ last_call.found_stored
    /\ Len(analyzer.relevant_sources) >= 2

\* C6 as stated: process_urls hands each URL to the fetch step at most once
\* in a run.
C6_HandedAtMostOnce ==
    \A u \in AnalyzerUrls : handed[u].n <= 1

\* C6 as amended: in a run, a URL whose fetch returned text is never handed
\* to the fetch step again; so text comes back for it at most once.
C6_FetchedTextAtMostOnce ==
    /\ \A u \in AnalyzerUrls : handed[u].text <= 1
    /\ last_call.run => last_call.refetched = {}

\* a URL handed twice to the fetch step, the second fetch returning text,
\* and skipped by the call after that
C6_Witness ==
    \E u \in AnalyzerUrls :
        /\ handed[u].text = 1
        /\ handed[u].n = 2
        /\ last_call.run
        /\ u \in last_call.skipped

(***************************************************************************)
(* SpecUrl: normalize_url and fetch_url_content applied to one URL.        *)
(***************************************************************************)
Schemes == {<<>>, HTTP, HTTPS}
Hosts == {PUBMED_HOST,
          <<"w","w","w",".","n","c","b","i",".","n","l","m",".","n","i","h",".","g","o","v">>,
          DOI_HOST,
          <<"e","u","r","o","p","e","p","m","c",".","o","r","g">>}
Paths == {<<>>,
          <<"/">>,
          <<"/","7">>,
          <<"/","4","2","/">>,
          <<"/","p","m","c","/","a","r","t","i","c","l","e","s","/","P","M","C","7","/">>,
          <<"/","P","M","C","4","2">>,
          <<"/","P","M","C","7","/","p","d","f">>,
          <<"/","1","0",".","1","/","x">>,
          <<"/","?","t","e","r","m","=","x">>,
          <<"/","1","0",".","1","/","x","?">>,
          <<"/","p","m","c","/","a","r","t","i","c","l","e","s","/","P","M","C","x">>,
          <<"/","p","m","c","/","a","b","o","u","t">>}
InputUrls == {s \o h \o p : s \in Schemes, h \in Hosts, p \in Paths}

InitUrl ==
    /\ url \in InputUrls
    /\ normalized = <<>>
    /\ fetched = NotRun
    /\ OracleIdle
    /\ AnalyzerIdle
    /\ MonitorIdle

\* normalize_url applied to the input, then to its own result
Normalize ==
    /\ Len(normalized) < 2
    /\ (IF normalized = <<>> THEN TRUE ELSE ~normalized[Len(normalized)].raised)
    /\ normalized' = Append(normalized,
            normalize_url(IF normalized = <<>> THEN url
                          ELSE normalized[Len(normalized)].value))
    /\ UNCHANGED <<url, fetched, oracleVars, analyzerVars, monitorVars>>

\* process_urls hands a URL that extract_urls normalized to fetch_url_content
Fetch ==
    /\ normalized # <<>>
    /\ ~normalized[1].raised
    /\ fetched = NotRun
    /\ \E net \in [1..MaxGets -> GetOutcomes] :
            fetched' = [run |-> TRUE] @@ fetch_url_content(normalized[1].value, net)
    /\ UNCHANGED <<url, normalized, oracleVars, analyzerVars, monitorVars>>

NextUrl == Normalize \/ Fetch

SpecUrl == InitUrl /\ [][NextUrl]_vars

(***************************************************************************)
(* Claims about normalize_url and fetch_url_content (SpecUrl).             *)
(***************************************************************************)

\* C4: normalize_url is idempotent: wherever normalize_url(u) returns a
\* value, normalize_url applied to that value returns the same value.
C4_NormalizeIdempotent ==
    Len(normalized) = 2 => normalized[2] = normalized[1]

\* the article identifier of a URL that holds pmc/articles/PMC<digits>,
\* <<>> for any other URL
ArticleId(u) ==
    LET i == Find(u, PMC_ARTICLES)
    IN IF i = 0 THEN <<>> ELSE DigitRun(u, i + Len(PMC_ARTICLES))

FirstGetFailed == fetched.outcomes # <<>> /\ fetched.outcomes[1] = "fail"

\* C9: a failed fetch of a PubMed-Central article URL is followed by exactly
\* one more request, to the PubMed abstract URL of the same identifier, and
\* when that fails too the result is None; a failed fetch of any other URL
\* is followed by no request; fetch_url_content never raises.
C9_PmcFallbackOnce ==
    fetched.run =>
        LET id == ArticleId(normalized[1].value)
        IN /\ ~fetched.raised
           /\ (FirstGetFailed /\ id # <<>>) =>
                 /\ Len(fetched.gets) = 2
                 /\ fetched.gets[2] = PUBMED_PREFIX \o id \o <<"/">>
                 /\ (fetched.outcomes[2] = "fail" => fetched.result = None)
           /\ (FirstGetFailed /\ id = <<>>) =>
                 /\ Len(fetched.gets) = 1
                 /\ fetched.result = None
           /\ ~FirstGetFailed => Len(fetched.gets) <= 1

C9_Witness ==
    /\ fetched.run
    /\ ArticleId(normalized[1].value) # <<>>
    /\ fetched.outcomes = <<"fail", "fail">>
    /\ Len(fetched.gets) = 2
    /\ fetched.result = None

(***************************************************************************)
(* FileMonitor (file_monitor.py).  A file of the watched directory is its  *)
(* bytes and its modification time; the directory is a function from the   *)
(* names of its files.                                                     *)
(***************************************************************************)

\* the bytes a watched file can hold: a note of one paragraph in UTF-8, and
\* bytes that are not UTF-8
NoteBytes == [id |-> "note", utf8 |-> TRUE, text |-> <<TextLine("note")>>, size |-> 5]
BinBytes  == [id |-> "bin", utf8 |-> FALSE, text |-> <<>>, size |-> 2]

File(bytes, mtime) == [bytes |-> bytes, mtime |-> mtime]

\* FileMonitor.get_file_hash: MD5 of the bytes, taken as free of collisions
get_file_hash(file) == [md5_of |-> file.bytes.id]

\* FileMonitor.get_file_content: the lines of the text, [] when the bytes
\* do not decode
get_file_content(file) == IF file.bytes.utf8 THEN file.bytes.text ELSE <<>>

\* the dict that initialize_state and check_for_changes record for a file
Snapshot(file) ==
    [hash |-> get_file_hash(file), mtime |-> file.mtime,
     size |-> file.bytes.size, content |-> get_file_content(file)]

\* ''.join(lines): the lines keep their ends, the text is the same lines
Join(lines) == lines

Event(filename, change_type, content) ==
    [filename |-> filename, change_type |-> change_type, content |-> content]

\* What fails in one poll: nothing, os.listdir (the directory is gone or
\* unreadable), the open of one file (it is unreadable), the write of
\* save_state.  None of them is caught (lines 23-29, 74-109, 118-123).
NoFailure == [kind |-> "none", file |-> ""]
ListdirFails == [kind |-> "listdir", file |-> ""]
OpenFails(f) == [kind |-> "open", file |-> f]
SaveStateFails == [kind |-> "save_state", file |-> ""]
Failures(dir) == {NoFailure, ListdirFails, SaveStateFails} \cup {OpenFails(f) : f \in DOMAIN dir}

\* FileMonitor.initialize_state: the persisted dict, every file of the
\* directory overwritten with its present snapshot, saved.
initialize_state(persisted, dir) ==
    LET loaded == IF persisted.exists THEN persisted.states ELSE <<>>
    IN [f \in DOMAIN loaded \cup DOMAIN dir |->
            IF f \in DOMAIN dir THEN Snapshot(dir[f]) ELSE loaded[f]]

\* the test of lines 92-96 with the comparison of modification times in
\* place of the comparison of hashes
change_by_mtime(states, f, snap) ==
    IF f \notin DOMAIN states THEN "new"
    ELSE IF snap.mtime # states[f].mtime THEN "modified"
    ELSE "none"

\* lines 92-96: what check_for_changes finds for a file of the listing
change_type(states, f, snap) ==
    IF f \notin DOMAIN states THEN "new"
    ELSE IF snap.hash # states[f].hash THEN "modified"
    ELSE "none"

\* FileMonitor.handle_file_change: the change is logged and the content
\* handed to analyze_content; script holds what the oracle and the network
\* answer during this call.
handle_file_change(self_analyzer, filename, content, script) ==
    LET ex == extract_urls(content)
        Cited(u) == u \in ex.urls
    IN analyze_content(self_analyzer, filename, content, script.rs[filename],
                       SelectSeq(script.order, Cited),
                       script.net[filename], script.page_rs[filename])

\* What a loop of check_for_changes has done: whether it raised, the
\* snapshots it put in current_files, the events it emitted, the analyzer.
LoopEnd(self_analyzer) ==
    [raised |-> FALSE, current_files |-> <<>>, events |-> <<>>, analyzer |-> self_analyzer]
LoopRaised(current_files, events, self_analyzer) ==
    [raised |-> TRUE, current_files |-> current_files, events |-> events,
     analyzer |-> self_analyzer]
Recorded(f, snap, rest) == [rest EXCEPT !.current_files = (f :> snap) @@ @]
Emitted(ev, rest) == [rest EXCEPT !.events = <<ev>> \o @]

RECURSIVE ListingLoop(_, _, _, _, _, _)

\* lines 93, 96: the event ev of the first file of order was handled as h;
\* a raise of analyze_content leaves check_for_changes
ListedEvent(order, states, dir, fail, script, snap, ev, h) ==
    IF h.raised THEN LoopRaised(Head(order) :> snap, <<ev>>, h.self)
    ELSE Emitted(ev, Recorded(Head(order), snap,
                     ListingLoop(Tail(order), states, dir, fail, h.self, script)))

\* lines 84-96: the first file of order has the snapshot snap
ListedFile(order, states, dir, fail, self_analyzer, script, snap, change) ==
    IF change = "none"
    THEN Recorded(Head(order), snap,
                  ListingLoop(Tail(order), states, dir, fail, self_analyzer, script))
    ELSE ListedEvent(order, states, dir, fail, script, snap,
                     Event(Head(order), change, Join(snap.content)),
                     handle_file_change(self_analyzer, Head(order),
                                        Join(snap.content), script))

\* lines 79-96: the loop over os.listdir, in the order of the listing
ListingLoop(order, states, dir, fail, self_analyzer, script) ==
    IF order = <<>> THEN LoopEnd(self_analyzer)
    ELSE IF fail = OpenFails(Head(order)) THEN LoopRaised(<<>>, <<>>, self_analyzer)
    ELSE ListedFile(order, states, dir, fail, self_analyzer, script,
                    Snapshot(dir[Head(order)]),
                    change_type(states, Head(order), Snapshot(dir[Head(order)])))

RECURSIVE DeletedLoop(_, _, _, _)

\* lines 101-105: the event ev of the first name of gone was handled as h
DeletedEvent(gone, states, script, ev, h) ==
    IF h.raised THEN LoopRaised(<<>>, <<ev>>, h.self)
    ELSE Emitted(ev, DeletedLoop(Tail(gone), states, h.self, script))

\* lines 99-105: the loop over the recorded names that the listing lacks
DeletedLoop(gone, states, self_analyzer, script) ==
    IF gone = <<>> THEN LoopEnd(self_analyzer)
    ELSE DeletedEvent(gone, states, script,
                      Event(Head(gone), "deleted", Join(states[Head(gone)].content)),
                      handle_file_change(self_analyzer, Head(gone),
                                         Join(states[Head(gone)].content), script))

\* what check_for_changes has done
Checked(raised, states, persisted, events, self_analyzer) ==
    [raised |-> raised, file_states |-> states, state_file |-> persisted,
     events |-> events, analyzer |-> self_analyzer]

\* lines 107-109, after the two loops did listed and deleted
AfterLoops(states, persisted, fail, listed, deleted) ==
    IF deleted.raised
    THEN Checked(TRUE, states, persisted, listed.events \o deleted.events, deleted.analyzer)
    ELSE IF fail = SaveStateFails
    THEN Checked(TRUE, listed.current_files, persisted,
                 listed.events \o deleted.events, deleted.analyzer)
    ELSE Checked(FALSE, listed.current_files, StateFile(listed.current_files),
                 listed.events \o deleted.events, deleted.analyzer)

\* lines 98-109, after the first loop did listed
AfterListing(states, persisted, gone, fail, script, listed) ==
    IF listed.raised
    THEN Checked(TRUE, states, persisted, listed.events, listed.analyzer)
    ELSE AfterLoops(states, persisted, fail, listed,
                    DeletedLoop(gone, states, listed.analyzer, script))

\* FileMonitor.check_for_changes.  order is the order of os.listdir, gone
\* the order in which the dict enumerates the names the listing lacks.
check_for_changes(states, persisted, dir, order, gone, fail, self_analyzer, script) ==
    IF fail = ListdirFails THEN Checked(TRUE, states, persisted, <<>>, self_analyzer)
    ELSE AfterListing(states, persisted, gone, fail, script,
                      ListingLoop(order, states, dir, fail, self_analyzer, script))

(***************************************************************************)
(* Spec: the watched directory edited by its user, and the monitor process *)
(* started, polling, interrupted, and started again after it ended.        *)
(***************************************************************************)
FileNames == {"a.txt", "b.txt"}

\* the files a name can hold: the note, the note saved again, the binary
Files == {File(NoteBytes, 1), File(NoteBytes, 2), File(BinBytes, 1)}

MonitorTexts == {get_file_content(file) : file \in Files}
MonitorUrls == UNION {extract_urls(text).urls : text \in MonitorTexts}
MonitorParagraphs == {i \in 1..MaxParagraphs :
                        \E text \in MonitorTexts : i <= Len(split_into_paragraphs(text))}

\* what the oracle and the network answer during one poll, for the call
\* of analyze_content that the event of each file makes
Scripts ==
    [rs : [FileNames -> [MonitorParagraphs -> AnalyzerResponses]],
     order : Orders(MonitorUrls),
     net : [FileNames -> [MonitorUrls -> NetScripts]],
     page_rs : [FileNames -> [MonitorUrls -> AnalyzerResponses]]]

\* the object when its process has ended: the two files remain
Ended(self_analyzer) == [self_analyzer EXCEPT !.alive = FALSE]

Init ==
    /\ UrlIdle
    /\ OracleIdle
    /\ MonitorIdle
    /\ analyzer = Ended(ProteinAnalyzer(NoFile, NoFile))
    /\ handed = <<>>
    /\ last_call = NotRun

\* the user saves a file under a name: a new file, or other bytes, or the
\* same bytes at another time
Write ==
    /\ \E f \in FileNames, file \in Files :
         /\ (IF f \in DOMAIN directory THEN directory[f] # file ELSE TRUE)
         /\ directory' = (f :> file) @@ directory
    /\ polled' = NoPoll(polled.fresh)
    /\ UNCHANGED <<urlVars, oracleVars, analyzerVars, state_file, file_states, pc>>

\* the user deletes a file
Delete ==
    /\ \E f \in DOMAIN directory :
         directory' = [g \in DOMAIN directory \ {f} |-> directory[g]]
    /\ polled' = NoPoll(polled.fresh)
    /\ UNCHANGED <<urlVars, oracleVars, analyzerVars, state_file, file_states, pc>>

\* FileMonitor("papers"): __init__ makes the ProteinAnalyzer and calls
\* initialize_state; monitor() is then in its loop
Start ==
    /\ pc # "monitoring"
    /\ analyzer' = ProteinAnalyzer(analyzer.sources_file, analyzer.non_relevant_file)
    /\ file_states' = initialize_state(state_file, directory)
    /\ state_file' = StateFile(file_states')
    /\ pc' = "monitoring"
    /\ polled' = NoPoll(TRUE)
    /\ UNCHANGED <<urlVars, oracleVars, handed, last_call, directory>>

\* the state after the check_for_changes that did r; a raise leaves
\* monitor(), whose only handler is for KeyboardInterrupt
Polled(r) ==
    /\ file_states' = IF r.raised THEN <<>> ELSE r.file_states
    /\ state_file' = r.state_file
    /\ analyzer' = IF r.raised THEN Ended(r.analyzer) ELSE r.analyzer
    /\ pc' = IF r.raised THEN "crashed" ELSE "monitoring"
    /\ polled' = [run |-> TRUE, fresh |-> FALSE, events |-> r.events,
                  raised |-> r.raised]

\* one turn of the loop of monitor(): check_for_changes
Poll ==
    /\ pc = "monitoring"
    /\ \E order \in Orders(DOMAIN directory),
          gone \in Orders(DOMAIN file_states \ DOMAIN directory),
          fail \in Failures(directory),
          script \in Scripts :
         Polled(check_for_changes(file_states, state_file, directory, order, gone,
                                  fail, analyzer, script))
    /\ UNCHANGED <<urlVars, oracleVars, handed, last_call, directory>>

\* Ctrl+C during the sleep: monitor() returns
Interrupt ==
    /\ pc = "monitoring"
    /\ pc' = "stopped"
    /\ file_states' = <<>>
    /\ analyzer' = Ended(analyzer)
    /\ polled' = NoPoll(FALSE)
    /\ UNCHANGED <<urlVars, oracleVars, handed, last_call, directory, state_file>>

Next == Write \/ Delete \/ Start \/ Poll \/ Interrupt

Spec == Init /\ [][Next]_vars

\* the events of one poll that name the file f
EventsOf(events, f) ==
    LET Names(e) == e.filename = f
    IN SelectSeq(events, Names)

\* the snapshots of the files the directory holds now
Snapshots(dir) == [f \in DOMAIN dir |-> Snapshot(dir[f])]

\* C1: a poll reports every file that is in the directory and in no
\* recorded snapshot with exactly one "new" event that carries the file's
\* full content, and no poll emits a "new" event for a recorded file.
C1_NewFileReportedOnce ==
    [][polled'.run =>
        \A f \in DOMAIN directory :
            IF f \notin DOMAIN file_states
            THEN /\ directory[f].bytes.utf8
                 /\ EventsOf(polled'.events, f) =
                        <<Event(f, "new", directory[f].bytes.text)>>
            ELSE \A e \in Range(EventsOf(polled'.events, f)) : e.change_type # "new"
      ]_vars

\* C2: a poll reports every recorded file that the directory lacks with
\* exactly one "deleted" event that carries the recorded content, and the
\* persisted snapshots lack the file after the poll.
C2_DeletedFileReportedOnce ==
    [][polled'.run =>
        \A f \in DOMAIN file_states \ DOMAIN directory :
            /\ EventsOf(polled'.events, f) =
                   <<Event(f, "deleted", Join(file_states[f].content))>>
            /\ state_file'.exists
            /\ f \notin DOMAIN state_file'.states
      ]_vars

\* C3: a poll emits no event for a file whose bytes have the hash recorded
\* for it; a poll over a directory that is as it was recorded emits no
\* event at all and leaves the persisted snapshots as they were.
C3_UnchangedFileSilent ==
    [][polled'.run =>
        /\ \A f \in DOMAIN directory \cap DOMAIN file_states :
              file_states[f].hash = get_file_hash(directory[f])
                  => EventsOf(polled'.events, f) = <<>>
        /\ file_states = Snapshots(directory)
              => polled'.events = <<>> /\ state_file' = state_file
      ]_vars

\* a poll that completed over a directory with files and emitted no event
C3_Witness ==
    /\ polled.run
    /\ ~polled.raised
    /\ polled.events = <<>>
    /\ DOMAIN directory # {}
    /\ \E f \in DOMAIN directory : directory[f].mtime # 1

\* C7: whatever fails during a poll, monitor() is still in its loop after
\* the poll.
C7_FailureLeavesLoopRunning == polled.run => pc = "monitoring"

\* C10: the constructor overwrites the snapshot of every file present, so
\* the first poll emits no event for a file that is as the constructor
\* found it, and it emits exactly one "deleted" event for every recorded
\* file that the directory lacks.
C10_FirstPollAfterRestart ==
    [][/\ pc # "monitoring" /\ pc' = "monitoring"
            => \A f \in DOMAIN directory : file_states'[f] = Snapshot(directory[f])
       /\ polled.fresh /\ polled'.run
            => /\ \A f \in DOMAIN directory \cap DOMAIN file_states :
                     file_states[f] = Snapshot(directory[f])
                         => EventsOf(polled'.events, f) = <<>>
               /\ \A f \in DOMAIN file_states \ DOMAIN directory :
                     EventsOf(polled'.events, f) =
                         <<Event(f, "deleted", Join(file_states[f].content))>>
      ]_vars

====
